---- MODULE Spec2Model ----
(***************************************************************************)
(* State-machine model of tensorrt_llm/_torch/pyexecutor/decoder.py:       *)
(* the stop-criteria evaluator, TorchDecoder.update_requests (context,     *)
(* extend and plain generation rows walked with one running offset),       *)
(* EarlyStopDecoder, and the asynchronous decode_async / update_requests   *)
(* split of the decoders that copy their results to the host.             *)
(***************************************************************************)
EXTENDS Integers, Sequences, FiniteSets, TLC

\* ------------------------------------------------------------------ bounds

\* Number of requests in the executor's pool.
NumReqs == 2
\* Largest token id the model produces (token ids are 0..MaxToken).
MaxToken == 1
\* Largest number of draft tokens attached to an extend request.
MaxDraft == 1
\* Largest number of chunked requests in one scheduled batch.
MaxChunked == 1

Vocab == 0 .. MaxToken
ReqIds == 1 .. NumReqs

\* Largest number of draft tokens in the single-request draft behaviours.
MaxLongDraft == 3
\* Largest number of commit calls recorded in detail.
MaxCalls == 2

VARIABLES
    max_seq_len,  \* TorchDecoder.max_seq_len, set by the constructor
    requests,     \* the executor's requests, by id
    observed,     \* TRUE when the commits of this behaviour are recorded
    calls,        \* number of recorded commit calls so far
    obs,          \* the last recorded commit call: inputs and final offsets
    probe,        \* one request under the stop-criteria evaluator alone
    variant,      \* the decoder class the executor was built with
    decoder,      \* TRTLLMDecoder's fields: batch_size, beam_width and the
                  \* store's sequence_lengths_host buffer
    device,       \* the native engine's decoder_state on the accelerator
    stream,       \* accelerator operations issued and not yet executed
    events_done,  \* steps whose decoder_event has completed
    inflight,     \* Decode States returned by decode_async, not yet consumed
    step,         \* number of decode_async calls so far
    error,        \* TRUE once a decoder call has raised
    last_read     \* what the last update_requests call found and read

torch_vars == << requests, observed, calls, obs >>
async_vars == << variant, decoder, device, stream, events_done, inflight,
                 step, error, last_read >>
vars == << max_seq_len, requests, observed, calls, obs, probe, variant,
           decoder, device, stream, events_done, inflight, step, error,
           last_read >>

\* Largest number of decode_async calls in the asynchronous behaviours.
MaxSteps == 2
\* Decode States that may be in flight: 2 is decode_async of step n+1
\* issued before update_requests of step n.
MaxInflight == 2

\* executor_config.max_beam_width is at most MaxBeamWidth.
MaxBeamWidth == 2

\* Tokens and scores of the score rows given to the samplers.
VocabSize == 3
MaxScore == 2

\* ------------------------------------------------------------ enumerations

CONTEXT_INIT == "CONTEXT_INIT"
GENERATION_IN_PROGRESS == "GENERATION_IN_PROGRESS"
GENERATION_COMPLETE == "GENERATION_COMPLETE"

NOT_FINISHED == "NOT_FINISHED"
END_ID == "END_ID"
LENGTH == "LENGTH"
STOP_WORDS == "STOP_WORDS"

\* ------------------------------------------------------------ Python lists

\* lst[a:b]: the elements at 0-based indices a .. b-1; a negative bound
\* counts from the end of the list, and both are clamped to the list.
PySlice(lst, a, b) ==
    LET bound(x) == IF x < 0
                    THEN (IF x + Len(lst) < 0 THEN 0 ELSE x + Len(lst))
                    ELSE (IF x < Len(lst) THEN x ELSE Len(lst))
        lo == bound(a)
        hi == bound(b)
    IN  IF lo >= hi THEN << >> ELSE SubSeq(lst, lo + 1, hi)

\* lst[-n:] for 0 <= n <= len(lst): -0 is 0, so n = 0 gives the whole list.
PyTail(lst, n) ==
    IF n = 0 THEN lst ELSE SubSeq(lst, Len(lst) - n + 1, Len(lst))

\* All sequences over S of length lo .. hi.
SeqsOf(S, lo, hi) == UNION { [1 .. n -> S] : n \in lo .. hi }

\* ------------------------------------------------------------- LlmRequest

\* request.add_new_token(token, 0): append to beam 0.  appended_when_complete
\* is a history field: it records that a token was appended to a request
\* whose state was already GENERATION_COMPLETE.
add_new_token(request, token) ==
    [request EXCEPT !.tokens = Append(@, token),
                    !.appended_when_complete =
                        @ \/ request.state = GENERATION_COMPLETE]

\* request.set_finished_reason(reason, 0).  reason_replaced is a history
\* field: it records that a finish reason other than NOT_FINISHED was
\* overwritten with a different one.
set_finished_reason(request, reason) ==
    [request EXCEPT !.finish_reason = reason,
                    !.reason_replaced =
                        @ \/ request.finish_reason \notin {NOT_FINISHED, reason}]

\* ---------------------------------------------------------- stop criteria

\* Variant: the generated count has to exceed max_new_tokens.
meet_max_token_stop_criteria_strict(request, num_tokens) ==
    \/ num_tokens - request.py_orig_prompt_len > request.py_max_new_tokens
    \/ num_tokens >= max_seq_len

meet_max_token_stop_criteria(request, num_tokens) ==
    \/ num_tokens - request.py_orig_prompt_len >= request.py_max_new_tokens
    \/ num_tokens >= max_seq_len

\* py_stop_words_list is << >> (None or empty: falsy) or
\* << stop_words_list, prefix_sum >>.
\* Variant: a phrase of no token is the tail of every sequence.
meet_stop_token_criteria_empty_tail(request) ==
    IF request.py_stop_words_list = << >>
    THEN FALSE
    ELSE LET stop_words_list == request.py_stop_words_list[1]
             prefix_sum == request.py_stop_words_list[2]
             tokens == request.tokens
         IN  \E i \in 1 .. Len(prefix_sum) :
                LET offset == IF i > 1 THEN prefix_sum[i - 1] ELSE 0
                    stop_word == PySlice(stop_words_list, offset, prefix_sum[i])
                IN  /\ ~(Len(stop_word) > Len(tokens))
                    /\ SubSeq(tokens, Len(tokens) - Len(stop_word) + 1,
                              Len(tokens)) = stop_word

meet_stop_token_criteria(request) ==
    IF request.py_stop_words_list = << >>
    THEN FALSE
    ELSE LET stop_words_list == request.py_stop_words_list[1]
             prefix_sum == request.py_stop_words_list[2]
             tokens == request.tokens
         IN  \E i \in 1 .. Len(prefix_sum) :
                LET offset == IF i > 1 THEN prefix_sum[i - 1] ELSE 0
                    stop_word == PySlice(stop_words_list, offset, prefix_sum[i])
                IN  /\ ~(Len(stop_word) > Len(tokens))
                    /\ PyTail(tokens, Len(stop_word)) = stop_word

\* One rule of _handle_stop_criteria firing: state and reason are set and
\* the function returns True.  sets counts the set_finished_reason calls.
StopWith(request, reason, sets) ==
    [req |-> set_finished_reason(
                 [request EXCEPT !.state = GENERATION_COMPLETE], reason),
     stop |-> TRUE,
     sets |-> sets + 1]

\* Variant: the length limit is tested before the end id.
handle_stop_criteria_length_first(request, new_token, num_tokens) ==
    IF meet_max_token_stop_criteria(request, num_tokens)
    THEN StopWith(request, LENGTH, 0)
    ELSE IF new_token = request.py_end_id
    THEN StopWith(request, END_ID, 0)
    ELSE IF meet_stop_token_criteria(request)
    THEN StopWith(request, STOP_WORDS, 0)
    ELSE [req |-> request, stop |-> FALSE, sets |-> 0]

handle_stop_criteria(request, new_token, num_tokens) ==
    IF new_token = request.py_end_id
    THEN StopWith(request, END_ID, 0)
    ELSE IF meet_max_token_stop_criteria(request, num_tokens)
    THEN StopWith(request, LENGTH, 0)
    ELSE IF meet_stop_token_criteria(request)
    THEN StopWith(request, STOP_WORDS, 0)
    ELSE [req |-> request, stop |-> FALSE, sets |-> 0]

\* ----------------------------------------------------------------- sampling

\* A score row (logits of shape [1, vocab_size]) is a function from the
\* tokens 1 .. VocabSize to scores 0 .. MaxScore.  torch.softmax gives
\* token i the mass Exp(logits[i]) / (sum of Exp over the row); masses are
\* kept exact, as numerator and denominator, with 2 for the base of the
\* exponential, and a threshold top_p is a fraction << numerator,
\* denominator >>.  A masked score (-inf) has mass 0.
Tokens == 1 .. VocabSize

\* An optional list of the sampling configuration: None, or a list.
None == [is_none |-> TRUE, list |-> << >>]
List(list) == [is_none |-> FALSE, list |-> list]

Exp(x) == 2 ^ x

RECURSIVE SumOver(_, _)
SumOver(f, S) ==
    IF S = {} THEN 0
    ELSE LET i == CHOOSE j \in S : TRUE
         IN  f[i] + SumOver(f, S \ {i})

\* torch.softmax(logits, dim=-1): the numerators, and the denominator.
softmax(logits) == [i \in Tokens |-> Exp(logits[i])]
SoftmaxTotal(logits) == SumOver(softmax(logits), Tokens)

\* torch.sort(logits, descending=True): the orders sorted_indices may have,
\* equal scores in any order.
SortedIndices(logits) ==
    { perm \in [Tokens -> Tokens] :
        /\ \A i, j \in Tokens : i # j => perm[i] # perm[j]
        /\ \A i, j \in Tokens : i < j => logits[perm[i]] >= logits[perm[j]] }

\* torch.multinomial(probs, 1) of the softmax of the row with the tokens
\* outside kept masked: any token of kept; log_probs is the raw mass of the
\* token.
Samples(logits, kept, strategy) ==
    { [raised |-> FALSE, strategy |-> strategy, candidates |-> kept,
       next_tokens |-> t,
       log_probs |-> << softmax(logits)[t], SoftmaxTotal(logits) >>] :
          t \in kept }

Raises(strategy) ==
    { [raised |-> TRUE, strategy |-> strategy, candidates |-> {},
       next_tokens |-> 0, log_probs |-> << 0, 1 >>] }

\* Variant: nothing is masked.
top_k_sampling_batch_unmasked(logits, top_k) ==
    IF top_k > VocabSize \/ top_k < 1
    THEN Raises("top_k")
    ELSE Samples(logits, Tokens, "top_k")

\* top_k_sampling_batch: torch.topk raises for k above the row size, and
\* values[:, -1] for k = 0; min_values is the k-th largest score; the
\* scores below it are set to -inf.
top_k_sampling_batch(logits, top_k) ==
    IF top_k > VocabSize \/ top_k < 1
    THEN Raises("top_k")
    ELSE LET values == { v \in 0 .. MaxScore :
                           /\ \E i \in Tokens : logits[i] = v
                           /\ Cardinality({ i \in Tokens : logits[i] > v })
                                  < top_k }
             min_values == CHOOSE v \in values :
                               \A u \in values : v <= u
         IN  Samples(logits, { i \in Tokens : ~(logits[i] < min_values) },
                     "top_k")

\* Variant: the mask is not shifted.
top_p_sampling_batch_unshifted(logits, top_p) ==
    UNION { LET cumulative_probs == [i \in Tokens |->
                    SumOver([j \in Tokens |->
                                 softmax(logits)[sorted_indices[j]]],
                            1 .. i)]
                remove == [i \in Tokens |->
                    cumulative_probs[i] * top_p[2]
                        > top_p[1] * SoftmaxTotal(logits)]
            IN  Samples(logits,
                        { sorted_indices[i] : i \in { j \in Tokens :
                                                        ~remove[j] } },
                        "top_p") :
            sorted_indices \in SortedIndices(logits) }

\* top_p_sampling_batch: the positions of the sorted row whose cumulative
\* mass exceeds top_p, the mask shifted right by one position and cleared
\* at position 0, scattered back to the tokens.
top_p_sampling_batch(logits, top_p) ==
    UNION { LET cumulative_probs == [i \in Tokens |->
                    SumOver([j \in Tokens |->
                                 softmax(logits)[sorted_indices[j]]],
                            1 .. i)]
                sorted_indices_to_remove == [i \in Tokens |->
                    IF i = 1 THEN FALSE
                    ELSE cumulative_probs[i - 1] * top_p[2]
                             > top_p[1] * SoftmaxTotal(logits)]
            IN  Samples(logits,
                        { sorted_indices[i] :
                              i \in { j \in Tokens :
                                        ~sorted_indices_to_remove[j] } },
                        "top_p") :
            sorted_indices \in SortedIndices(logits) }

\* greedy_search_sampling_batch: torch.argmax, any token of the largest
\* score.
greedy_search_sampling_batch(logits) ==
    UNION { Samples(logits, {t}, "greedy") :
              t \in { i \in Tokens : \A j \in Tokens :
                                         logits[j] <= logits[i] } }

\* Variant: top-k is looked at before top-p.
decode_single_request_top_k_first(sampling_config, logits) ==
    IF ~sampling_config.top_k.is_none /\ Len(sampling_config.top_k.list) > 0
    THEN top_k_sampling_batch(logits, sampling_config.top_k.list[1])
    ELSE IF ~sampling_config.top_p.is_none /\ Len(sampling_config.top_p.list) > 0
    THEN top_p_sampling_batch(logits, sampling_config.top_p.list[1])
    ELSE greedy_search_sampling_batch(logits)

\* decode_single_request(request, logits), of request.sampling_config: the
\* results the call may return.
decode_single_request(sampling_config, logits) ==
    IF ~sampling_config.top_p.is_none /\ Len(sampling_config.top_p.list) > 0
    THEN top_p_sampling_batch(logits, sampling_config.top_p.list[1])
    ELSE IF ~sampling_config.top_k.is_none /\ Len(sampling_config.top_k.list) > 0
    THEN top_k_sampling_batch(logits, sampling_config.top_k.list[1])
    ELSE greedy_search_sampling_batch(logits)

\* ------------------------------------------------- TorchDecoder.update_requests

\* A scheduled batch: context_requests and generation_requests are sequences
\* of entries [id, context_remaining, has_draft, py_draft_tokens] (has_draft
\* is "py_draft_tokens is not None"); chunked_requests is the number of
\* chunked requests.  The walk carries w = [reqs, request_idx, token_idx],
\* and raised once new_tokens_list[token_idx] is past the end of the list
\* (IndexError): the call ends there, the requests walked before committed.

advance_idx(w, num_tokens) ==
    [w EXCEPT !.request_idx = @ + 1, !.token_idx = @ + num_tokens]

\* History of the walk: request id was visited with the offsets of w and
\* left with those of w2.
Visited(w, id, w2) ==
    [w2 EXCEPT !.visits = Append(@, [id |-> id,
                                     token_idx |-> w.token_idx,
                                     request_idx |-> w.request_idx,
                                     token_idx_after |-> w2.token_idx])]

\* handle_logits(request, count): with generation logits requested, the rows
\* token_idx .. token_idx + count - 1 are appended to the request's result
\* (logits_slice keeps the last slice appended, as << start, count >>).
\* The logits are always present and no request asks for log probabilities.
handle_logits(request, token_idx, count) ==
    IF ~request.py_return_generation_logits
    THEN request
    ELSE [request EXCEPT !.logits_slice = << token_idx, count >>]

\* Variant: the token is tested against the stop criteria and not appended.
CommitToken_not_appended(request, new_tokens_list, token_idx) ==
    LET new_token == new_tokens_list[token_idx + 1]
        r2 == handle_stop_criteria(request, new_token,
                                   Len(request.tokens)).req
        r3 == handle_logits(r2, token_idx, 1)
    IN  [r3 EXCEPT !.py_decoding_iter = @ + 1]

\* The single-token commit of a context row or a plain generation row.
CommitToken(request, new_tokens_list, token_idx) ==
    LET new_token == new_tokens_list[token_idx + 1]
        r1 == add_new_token(request, new_token)
        num_tokens == Len(r1.tokens)
        r2 == handle_stop_criteria(r1, new_token, num_tokens).req
        r3 == handle_logits(r2, token_idx, 1)
    IN  [r3 EXCEPT !.py_decoding_iter = @ + 1]

\* Variant: an accepted draft commits the token one row further on, where
\* the list has that row.
RECURSIVE AcceptDrafts_one_row_on(_, _, _, _, _)
AcceptDrafts_one_row_on(request, new_token, num_accepted, drafts, row) ==
    IF num_accepted >= Len(drafts) \/ num_accepted + 3 > Len(row)
    THEN [req |-> request, num_accepted |-> num_accepted]
    ELSE IF drafts[num_accepted + 1] # new_token
    THEN [req |-> request, num_accepted |-> num_accepted]
    ELSE LET next_token == row[num_accepted + 3]
             r1 == add_new_token(request, next_token)
             h == handle_stop_criteria(r1, next_token, Len(r1.tokens))
         IN  IF h.stop
             THEN [req |-> h.req, num_accepted |-> num_accepted + 1]
             ELSE AcceptDrafts_one_row_on(h.req, next_token,
                                          num_accepted + 1, drafts, row)

\* for draft_token in request.py_draft_tokens: ... with num_accepted drafts
\* accepted so far and new_token the token committed last.  row is the
\* token list from token_idx on: new_tokens_list[token_idx + k] is
\* row[k + 1].
RECURSIVE AcceptDrafts(_, _, _, _, _)
AcceptDrafts(request, new_token, num_accepted, drafts, row) ==
    IF num_accepted >= Len(drafts)
    THEN [req |-> request, num_accepted |-> num_accepted]
    ELSE IF drafts[num_accepted + 1] # new_token
    THEN [req |-> request, num_accepted |-> num_accepted]
    ELSE LET next_token == row[num_accepted + 2]
             r1 == add_new_token(request, next_token)
             h == handle_stop_criteria(r1, next_token, Len(r1.tokens))
         IN  IF h.stop
             THEN [req |-> h.req, num_accepted |-> num_accepted + 1]
             ELSE AcceptDrafts(h.req, next_token, num_accepted + 1, drafts, row)

\* Variant: every draft is accepted, the whole row is committed.
CommitExtend_all_drafts(request, drafts, new_tokens_list, token_idx) ==
    LET row == SubSeq(new_tokens_list, token_idx + 1,
                      token_idx + 1 + Len(drafts))
    IN  [request EXCEPT !.tokens = @ \o row,
                        !.py_decoding_iter = @ + 1,
                        !.py_num_accepted_draft_tokens = Len(drafts),
                        !.py_rewind_len =
                            request.py_draft_pages_allocated - Len(drafts)]

\* The commit of an extend row: the first token, then the drafts that match.
CommitExtend(request, drafts, new_tokens_list, token_idx) ==
    LET row == SubSeq(new_tokens_list, token_idx + 1, Len(new_tokens_list))
        new_token == row[1]
        r1 == add_new_token(request, new_token)
        r2 == handle_stop_criteria(r1, new_token, Len(r1.tokens)).req
        acc == AcceptDrafts(r2, new_token, 0, drafts, row)
        r3 == handle_logits(acc.req, token_idx, acc.num_accepted)
    IN  [r3 EXCEPT !.py_decoding_iter = @ + 1,
                   !.py_num_accepted_draft_tokens = acc.num_accepted,
                   !.py_rewind_len =
                       request.py_draft_pages_allocated - acc.num_accepted]

\* Variant: a context row is committed whatever is left of the prefill.
ContextRow_mid_prefill_committed(w, e, new_tokens_list) ==
    IF w.reqs[e.id].state # GENERATION_COMPLETE
    THEN advance_idx(
             [w EXCEPT !.reqs[e.id] =
                 CommitToken(w.reqs[e.id], new_tokens_list, w.token_idx)], 1)
    ELSE advance_idx(w, 1)

ContextRow(w, e, new_tokens_list) ==
    IF e.context_remaining # 0
    THEN advance_idx(w, 1)
    ELSE IF w.reqs[e.id].state # GENERATION_COMPLETE
    THEN IF w.token_idx >= Len(new_tokens_list)
         THEN [w EXCEPT !.raised = TRUE]
         ELSE
         advance_idx(
             [w EXCEPT !.reqs[e.id] =
                 CommitToken(w.reqs[e.id], new_tokens_list, w.token_idx)], 1)
    ELSE advance_idx(w, 1)

\* Variant: the offset advances by the rows that were committed.
ExtendRow_accepted_rows(w, e, new_tokens_list) ==
    IF w.reqs[e.id].state # GENERATION_COMPLETE
    THEN LET r == CommitExtend(w.reqs[e.id], e.py_draft_tokens,
                               new_tokens_list, w.token_idx)
         IN  advance_idx([w EXCEPT !.reqs[e.id] = r],
                         r.py_num_accepted_draft_tokens + 1)
    ELSE advance_idx(w, 1)

ExtendRow(w, e, new_tokens_list) ==
    IF w.reqs[e.id].state # GENERATION_COMPLETE
    THEN IF w.token_idx >= Len(new_tokens_list)
         THEN [w EXCEPT !.raised = TRUE]
         ELSE
         advance_idx(
             [w EXCEPT !.reqs[e.id] =
                 CommitExtend(w.reqs[e.id], e.py_draft_tokens,
                              new_tokens_list, w.token_idx)],
             Len(e.py_draft_tokens) + 1)
    ELSE advance_idx(w, Len(e.py_draft_tokens) + 1)

\* Variant: the row is committed whatever the state of its request.
GenerationRow_unchecked(w, e, new_tokens_list) ==
    advance_idx(
        [w EXCEPT !.reqs[e.id] =
            CommitToken(w.reqs[e.id], new_tokens_list, w.token_idx)], 1)

GenerationRow(w, e, new_tokens_list) ==
    IF w.reqs[e.id].state # GENERATION_COMPLETE
    THEN IF w.token_idx >= Len(new_tokens_list)
         THEN [w EXCEPT !.raised = TRUE]
         ELSE
         advance_idx(
             [w EXCEPT !.reqs[e.id] =
                 CommitToken(w.reqs[e.id], new_tokens_list, w.token_idx)], 1)
    ELSE advance_idx(w, 1)

RECURSIVE ContextLoop(_, _, _, _)
ContextLoop(w, entries, i, new_tokens_list) ==
    IF w.raised \/ i > Len(entries) THEN w
    ELSE LET w2 == ContextRow(w, entries[i], new_tokens_list)
         IN  ContextLoop(IF w2.raised THEN w2
                    ELSE Visited(w, entries[i].id, w2),
                    entries, i + 1, new_tokens_list)

RECURSIVE ExtendLoop(_, _, _, _)
ExtendLoop(w, entries, i, new_tokens_list) ==
    IF w.raised \/ i > Len(entries) THEN w
    ELSE LET w2 == ExtendRow(w, entries[i], new_tokens_list)
         IN  ExtendLoop(IF w2.raised THEN w2
                    ELSE Visited(w, entries[i].id, w2),
                    entries, i + 1, new_tokens_list)

RECURSIVE GenerationLoop(_, _, _, _)
GenerationLoop(w, entries, i, new_tokens_list) ==
    IF w.raised \/ i > Len(entries) THEN w
    ELSE LET w2 == GenerationRow(w, entries[i], new_tokens_list)
         IN  GenerationLoop(IF w2.raised THEN w2
                    ELSE Visited(w, entries[i].id, w2),
                    entries, i + 1, new_tokens_list)

\* if hasattr(scheduled_requests, 'chunked_requests'):
\*     request_idx += len(scheduled_requests.chunked_requests)
SkipChunked(w, chunked_requests) ==
    [w EXCEPT !.request_idx = @ + chunked_requests]

IsExtend(e) == e.has_draft
IsPlain(e) == ~e.has_draft

TorchDecoder_update_requests(reqs, batch, new_tokens_list) ==
    LET w0 == [reqs |-> reqs, request_idx |-> 0, token_idx |-> 0,
               visits |-> << >>, raised |-> FALSE]
        w1 == ContextLoop(w0, batch.context_requests, 1, new_tokens_list)
        w2 == SkipChunked(w1, batch.chunked_requests)
        extend_requests == SelectSeq(batch.generation_requests, IsExtend)
        generation_requests == SelectSeq(batch.generation_requests, IsPlain)
        w3 == ExtendLoop(w2, extend_requests, 1, new_tokens_list)
    IN  GenerationLoop(w3, generation_requests, 1, new_tokens_list)

\* ------------------------------------------------------------------- state

\* The sampling and stop configuration a request is created with.
Profiles ==
    { [prompt |-> << 1 >>, py_max_new_tokens |-> 2, py_end_id |-> 0,
       py_stop_words_list |-> << >>, py_return_generation_logits |-> TRUE],
      [prompt |-> << 1, 1 >>, py_max_new_tokens |-> 3, py_end_id |-> 0,
       py_stop_words_list |-> << >>, py_return_generation_logits |-> FALSE],
      [prompt |-> << 1 >>, py_max_new_tokens |-> 3, py_end_id |-> -1,
       py_stop_words_list |-> << << 0, 1 >>, << 2 >> >>,
       py_return_generation_logits |-> FALSE] }

NewRequest(profile) ==
    [tokens |-> profile.prompt,
     state |-> CONTEXT_INIT,
     finish_reason |-> NOT_FINISHED,
     py_decoding_iter |-> 0,
     py_num_accepted_draft_tokens |-> 0,
     py_rewind_len |-> 0,
     py_orig_prompt_len |-> Len(profile.prompt),
     py_max_new_tokens |-> profile.py_max_new_tokens,
     py_end_id |-> profile.py_end_id,
     py_stop_words_list |-> profile.py_stop_words_list,
     py_draft_pages_allocated |-> MaxDraft,
     py_return_generation_logits |-> profile.py_return_generation_logits,
     logits_slice |-> << >>,
     seq_slot |-> 0,
     beam_width |-> 1,
     num_draft_tokens |-> 0,
     num_tokens_per_iteration |-> 0,
     output_token_idx |-> 0,
     context_logits |-> << >>,
     appended_when_complete |-> FALSE,
     reason_replaced |-> FALSE]

NoBatch ==
    [context_requests |-> << >>, chunked_requests |-> 0,
     generation_requests |-> << >>]

NoObs ==
    [valid |-> FALSE, prev |-> << >>, batch |-> NoBatch,
     new_tokens_list |-> << >>, token_idx |-> 0, request_idx |-> 0,
     visits |-> << >>]

\* ------------------------------------------------------------ the scheduler

\* What the scheduler may do with one request in a step.
NotScheduled == [kind |-> "none", context_remaining |-> 0,
                 has_draft |-> FALSE, py_draft_tokens |-> << >>]
ContextEntries ==
    { [kind |-> "context", context_remaining |-> c,
       has_draft |-> FALSE, py_draft_tokens |-> << >>] : c \in 0 .. 1 }
PlainEntry == [kind |-> "generation", context_remaining |-> 0,
               has_draft |-> FALSE, py_draft_tokens |-> << >>]
ExtendEntries ==
    { [kind |-> "generation", context_remaining |-> 0,
       has_draft |-> TRUE, py_draft_tokens |-> d] :
        d \in SeqsOf(Vocab, 0, MaxDraft) }
AllEntries == {NotScheduled, PlainEntry} \cup ContextEntries \cup ExtendEntries

\* A request in prefill is a context request; one that generates is a
\* generation request, with or without drafts; one that completed while a
\* later step was already scheduled still occupies its row in that step.
MayPlan(request, e) ==
    \/ e.kind = "none"
    \/ /\ e.kind = "context"
       /\ \/ request.state = CONTEXT_INIT
          \/ request.state = GENERATION_COMPLETE /\ e.context_remaining = 0
    \/ /\ e.kind = "generation"
       /\ request.state \in {GENERATION_IN_PROGRESS, GENERATION_COMPLETE}

RECURSIVE EntriesOf(_, _, _)
EntriesOf(plan, kind, r) ==
    IF r > NumReqs THEN << >>
    ELSE (IF plan[r].kind = kind
          THEN << [id |-> r,
                   context_remaining |-> plan[r].context_remaining,
                   has_draft |-> plan[r].has_draft,
                   py_draft_tokens |-> plan[r].py_draft_tokens] >>
          ELSE << >>) \o EntriesOf(plan, kind, r + 1)

BatchOf(plan, chunked) ==
    [context_requests |-> EntriesOf(plan, "context", 1),
     chunked_requests |-> chunked,
     generation_requests |-> EntriesOf(plan, "generation", 1)]

RECURSIVE SumRows(_, _)
SumRows(entries, i) ==
    IF i > Len(entries) THEN 0
    ELSE (IF entries[i].has_draft
          THEN 1 + Len(entries[i].py_draft_tokens) ELSE 1)
         + SumRows(entries, i + 1)

\* Rows of the step's score and token buffers: one per context request, one
\* per chunked request, 1 + len(draft_tokens) per extend request, one per
\* plain generation request.
NumRows(batch) ==
    Len(batch.context_requests) + batch.chunked_requests
        + SumRows(batch.generation_requests, 1)

\* The executor moves a context request whose prefill is done to
\* GENERATION_IN_PROGRESS before the step's results are committed.
update_request_states(reqs, batch) ==
    [r \in ReqIds |->
        IF /\ reqs[r].state = CONTEXT_INIT
           /\ \E i \in 1 .. Len(batch.context_requests) :
                 /\ batch.context_requests[i].id = r
                 /\ batch.context_requests[i].context_remaining = 0
        THEN [reqs[r] EXCEPT !.state = GENERATION_IN_PROGRESS]
        ELSE reqs[r]]

NoProbe ==
    [evaluated |-> FALSE, request |-> << >>, before |-> << >>,
     new_token |-> 0, stop |-> FALSE, sets |-> 0]

\* ------------------------------------------- decode_async and update_requests

Min(a, b) == IF a < b THEN a ELSE b

\* Sequence slots of the native decoder, one per request.
Slots == 0 .. NumReqs - 1

BatchEntries(batch) == batch.context_requests \o batch.generation_requests

\* A Decode State.  host holds the tensors decode_async allocates on the
\* host for this state alone; they are filled when the accelerator executes
\* the copies.  shares_store says that new_tensors_host["sequence_lengths_host"]
\* is the decoder's own store buffer, not a tensor of this state.
\* event_after_copies and seq_lens_produced are history fields.
DecoderState(n, batch, has_event, tokens_device, shares_store, ops) ==
    [step |-> n,
     scheduled_requests |-> batch,
     has_event |-> has_event,
     states_updated |-> FALSE,
     new_tensors_device |-> tokens_device,
     host |-> [ready |-> FALSE, new_tokens |-> << >>,
               finished_sum |-> << >>, finish_reasons |-> << >>],
     shares_store |-> shares_store,
     event_after_copies |->
         \A i, j \in 1 .. Len(ops) :
             (ops[i].kind = "record" /\ ops[j].kind \in {"copy", "copy_seq_lens"})
                 => j < i,
     seq_lens_produced |-> << >>]

Op(kind, n) == [kind |-> kind, step |-> n, batch |-> NoBatch, outcome |-> << >>]

\* EarlyStopDecoder.decode_async: the state wraps the batch and the logits.
EarlyStopDecoder_decode_async(reqs, dec, batch, n) ==
    [state |-> DecoderState(n, batch, FALSE, << >>, FALSE, << >>),
     ops |-> << >>, requests |-> reqs, decoder |-> dec, raised |-> FALSE]

\* Variant: decode_async counts the decoding iteration of the requests.
batch_decode_counting(reqs, dec, batch, n, new_tokens_device) ==
    LET ops == << Op("copy", n), Op("record", n) >>
    IN  [state |-> DecoderState(n, batch, TRUE, new_tokens_device, FALSE, ops),
         ops |-> ops,
         requests |-> [r \in ReqIds |->
                          [reqs[r] EXCEPT !.py_decoding_iter = @ + 1]],
         decoder |-> dec, raised |-> FALSE]

\* TorchDecoder._batch_decode: argmax, the copy to the host, the event.
batch_decode(reqs, dec, batch, n, new_tokens_device) ==
    LET ops == << Op("copy", n), Op("record", n) >>
    IN  [state |-> DecoderState(n, batch, TRUE, new_tokens_device, FALSE, ops),
         ops |-> ops, requests |-> reqs, decoder |-> dec, raised |-> FALSE]

\* Rows _mixed_decode produces: one per context request and one per
\* generation request that is not GENERATION_COMPLETE.
MixedRows(reqs, batch) ==
    Len(batch.context_requests)
        + Cardinality({ i \in 1 .. Len(batch.generation_requests) :
              reqs[batch.generation_requests[i].id].state
                  # GENERATION_COMPLETE })

\* The requests _mixed_decode samples a token for, in the order of its two
\* loops: request MixedRequests(reqs, batch)[j] gets row j - 1 of the
\* token tensor.
MixedRequests(reqs, batch) ==
    LET Active(e) == reqs[e.id].state # GENERATION_COMPLETE
        ids(entries) == [i \in 1 .. Len(entries) |-> entries[i].id]
    IN  ids(batch.context_requests)
            \o ids(SelectSeq(batch.generation_requests, Active))

\* TorchDecoder._mixed_decode: per-request sampling; the assertion on draft
\* tokens and torch.cat of an empty list raise.  sampled[i] is the token
\* decode_single_request draws from row i - 1 of the logits; idx counts the
\* rows produced, so the j-th token produced is drawn from row j - 1.
mixed_decode(reqs, dec, batch, n, sampled) ==
    LET ops == << Op("copy", n), Op("record", n) >>
        new_tokens_device == [j \in 1 .. MixedRows(reqs, batch) |-> sampled[j]]
        drafts == \E i \in 1 .. Len(batch.generation_requests) :
                     /\ reqs[batch.generation_requests[i].id].state
                            # GENERATION_COMPLETE
                     /\ batch.generation_requests[i].has_draft
    IN  IF drafts \/ MixedRows(reqs, batch) = 0
        THEN [state |-> DecoderState(n, batch, FALSE, << >>, FALSE, << >>),
              ops |-> << >>, requests |-> reqs, decoder |-> dec,
              raised |-> TRUE]
        ELSE [state |-> DecoderState(n, batch, TRUE, new_tokens_device,
                                     FALSE, ops),
              ops |-> ops, requests |-> reqs, decoder |-> dec,
              raised |-> FALSE]

\* TorchDecoder.decode_async
TorchDecoder_decode_async(reqs, dec, batch, n, new_tokens_device) ==
    IF dec.mixed_decoder
    THEN mixed_decode(reqs, dec, batch, n, new_tokens_device)
    ELSE batch_decode(reqs, dec, batch, n, new_tokens_device)

\* TRTLLMDecoder.decode_async: batch_size and beam_width are stored on the
\* decoder, the native forward step is issued, then the copies to the host
\* (the sequence lengths into the store's buffer, the rest into tensors of
\* this state) and the event.  With no request in the batch beam_width is
\* not assigned and the logits, of no element, cannot be reshaped to
\* (0, beam_width, -1): the call raises, batch_size assigned.
TRTLLMDecoder_decode_async(reqs, dec, batch, n, outcome) ==
    LET ops == << [Op("forward", n) EXCEPT !.batch = batch,
                                           !.outcome = outcome],
                  Op("copy_seq_lens", n), Op("copy", n), Op("record", n) >>
    IN  IF BatchEntries(batch) = << >>
        THEN [state |-> DecoderState(n, batch, FALSE, << >>, FALSE, << >>),
              ops |-> << >>, requests |-> reqs,
              decoder |-> [dec EXCEPT !.batch_size = 0],
              raised |-> TRUE]
        ELSE [state |-> DecoderState(n, batch, TRUE, << >>, TRUE, ops),
              ops |-> ops, requests |-> reqs,
              decoder |-> [dec EXCEPT
                              !.batch_size = Len(BatchEntries(batch)),
                              !.beam_width =
                                  reqs[BatchEntries(batch)[1].id].beam_width],
              raised |-> FALSE]

\* The native engine's forward step on its decoder_state: a context request
\* whose prefill ends gets its first token, a generation request that is
\* not finished its next one; outcome gives the token and whether the
\* engine finishes the sequence.
NativeForward(dev, reqs, batch, outcome) ==
    LET entries == BatchEntries(batch)
        EntryOf(sl) == CHOOSE i \in 1 .. Len(entries) : entries[i].id = sl + 1
        Scheduled(sl) == \E i \in 1 .. Len(entries) : entries[i].id = sl + 1
        IsContext(sl) ==
            \E i \in 1 .. Len(batch.context_requests) :
                batch.context_requests[i].id = sl + 1
        Active(sl) ==
            /\ Scheduled(sl)
            /\ entries[EntryOf(sl)].context_remaining = 0
            /\ IsContext(sl) \/ dev.finished_sum[sl] = 0
        reason(sl) ==
            IF ~outcome[sl].done THEN NOT_FINISHED
            ELSE IF outcome[sl].token = reqs[sl + 1].py_end_id THEN END_ID
            ELSE LENGTH
    IN  [sequence_lengths |-> [sl \in Slots |->
            [b \in 1 .. Len(dev.sequence_lengths[sl]) |->
                IF ~Scheduled(sl) THEN dev.sequence_lengths[sl][b]
                ELSE IF IsContext(sl)
                THEN reqs[sl + 1].py_orig_prompt_len
                         + (IF Active(sl) THEN 1 ELSE 0)
                ELSE dev.sequence_lengths[sl][b]
                         + (IF Active(sl) THEN 1 ELSE 0)]],
         all_new_tokens |-> << [sl \in Slots |->
            IF Active(sl) THEN outcome[sl].token
            ELSE dev.all_new_tokens[1][sl]] >>,
         finished_sum |-> [sl \in Slots |->
            IF Active(sl) THEN (IF outcome[sl].done THEN 1 ELSE 0)
            ELSE IF IsContext(sl) THEN 0 ELSE dev.finished_sum[sl]],
         finish_reasons |-> [sl \in Slots |->
            IF Active(sl) THEN reason(sl)
            ELSE IF IsContext(sl) THEN NOT_FINISHED
            ELSE dev.finish_reasons[sl]]]

\* Variant: the host does not wait.
synchronize_skipped(ds) == TRUE

\* decoder_event.synchronize(), when the state has an event: the host
\* proceeds once the accelerator has completed the event.
synchronize(ds) == ds.has_event => ds.step \in events_done

\* EarlyStopDecoder.update_requests
RECURSIVE EarlyLoop(_, _, _)
EarlyLoop(reqs, entries, idx) ==
    IF idx > Len(entries) THEN reqs
    ELSE LET id == entries[idx].id
             r1 == [reqs[id] EXCEPT !.state = GENERATION_COMPLETE]
             r2 == set_finished_reason(r1, LENGTH)
             r3 == [r2 EXCEPT !.context_logits = Append(@, idx - 1)]
         IN  EarlyLoop([reqs EXCEPT ![id] = r3], entries, idx + 1)

\* Variant: the assertion comes after the loop.
EarlyStopDecoder_update_requests_late_assert(reqs, batch) ==
    [reqs |-> EarlyLoop(reqs, batch.context_requests, 1),
     raised |-> batch.generation_requests # << >>]

EarlyStopDecoder_update_requests(reqs, batch) ==
    IF batch.generation_requests # << >>
    THEN [reqs |-> reqs, raised |-> TRUE]
    ELSE [reqs |-> EarlyLoop(reqs, batch.context_requests, 1),
          raised |-> FALSE]

\* TorchStarAttentionDecoder.update_one_request; indexing the token list
\* past its end raises before the request is touched.
update_one_request(request, new_tokens_list) ==
    LET output_token_idx == request.output_token_idx
        new_token == new_tokens_list[output_token_idx + 1]
        r1 == add_new_token(request, new_token)
        r2 == [r1 EXCEPT !.logits_slice = << output_token_idx, 1 >>]
        r3 == handle_stop_criteria(r2, new_token, Len(r1.tokens)).req
    IN  IF output_token_idx >= Len(new_tokens_list)
        THEN [req |-> request, raised |-> TRUE]
        ELSE [req |-> IF r3.state # GENERATION_COMPLETE
                      THEN [r3 EXCEPT !.py_decoding_iter = @ + 1]
                      ELSE r3,
              raised |-> FALSE]

RECURSIVE StarLoop(_, _, _, _, _)
StarLoop(w, entries, i, new_tokens_list, context) ==
    IF w.raised \/ i > Len(entries) THEN w
    ELSE LET id == entries[i].id
             u == update_one_request(w.reqs[id], new_tokens_list)
         IN  StarLoop(
                 IF context /\ w.reqs[id].state # GENERATION_IN_PROGRESS
                 THEN w
                 ELSE [reqs |-> [w.reqs EXCEPT ![id] = u.req],
                       raised |-> u.raised],
                 entries, i + 1, new_tokens_list, context)

TorchStarAttentionDecoder_update_requests(reqs, batch, new_tokens_list) ==
    StarLoop(StarLoop([reqs |-> reqs, raised |-> FALSE],
                      batch.context_requests, 1, new_tokens_list, TRUE),
             batch.generation_requests, 1, new_tokens_list, FALSE)

\* Variant: the request is marked complete whatever the finished count.
TrtUpdateOne_always_complete(request, host, sequence_lengths_host_data, beam_width) ==
    LET seq_slot == request.seq_slot
        row == sequence_lengths_host_data[seq_slot * beam_width + 0]
        r1 == IF Min(request.num_draft_tokens + 1,
                     row[1] - Len(request.tokens)) >= 1
              THEN add_new_token(request, host.new_tokens[1][seq_slot])
              ELSE request
        r2 == set_finished_reason(
                  r1, host.finish_reasons[seq_slot * beam_width + 0])
    IN  IF request.state = CONTEXT_INIT
        THEN [req |-> request, raised |-> FALSE]
        ELSE IF seq_slot * beam_width + 0 \notin DOMAIN sequence_lengths_host_data
        THEN [req |-> request, raised |-> TRUE]
        ELSE IF Len(row) # 1
        THEN [req |-> request, raised |-> TRUE]
        ELSE [req |-> [r2 EXCEPT !.state = GENERATION_COMPLETE],
              raised |-> FALSE]

\* TRTLLMDecoder.update_requests, one request of the chained collections.
\* sequence_lengths_host_data is the store's buffer, of shape
\* (max_batch_size, max_beam_width): indexed with the one number
\* seq_slot * beam_width + beam it gives a row, and .item() of a row of
\* more than one element raises (as does an index past the last row), at
\* beam 0 and before the request is touched.  With rows of one element
\* beam_width is 1 and beam 0 is the only beam.
TrtUpdateOne(request, host, sequence_lengths_host_data, beam_width) ==
    LET seq_slot == request.seq_slot
        num_generated_tokens == request.num_draft_tokens + 1
        current_num_of_tokens == Len(request.tokens)
        row == sequence_lengths_host_data[seq_slot * beam_width + 0]
        seq_len == row[1]
        num_new_tokens == Min(num_generated_tokens,
                              seq_len - Len(request.tokens))
        r1 == IF num_new_tokens >= 1
              THEN add_new_token(request, host.new_tokens[1][seq_slot])
              ELSE request
        r2 == set_finished_reason(
                  r1, host.finish_reasons[seq_slot * beam_width + 0])
        r3 == [r2 EXCEPT !.num_tokens_per_iteration =
                             Len(r2.tokens) - current_num_of_tokens]
        r4 == IF r3.state # GENERATION_COMPLETE
              THEN [r3 EXCEPT !.py_decoding_iter = @ + 1]
              ELSE r3
    IN  IF request.state = CONTEXT_INIT
        THEN [req |-> request, raised |-> FALSE]
        ELSE IF seq_slot * beam_width + 0 \notin DOMAIN sequence_lengths_host_data
        THEN [req |-> request, raised |-> TRUE]
        ELSE IF Len(row) # 1
        THEN [req |-> request, raised |-> TRUE]
        ELSE [req |-> IF host.finished_sum[seq_slot] = beam_width
                      THEN [r4 EXCEPT !.state = GENERATION_COMPLETE]
                      ELSE r4,
              raised |-> FALSE]

RECURSIVE TrtLoop(_, _, _, _, _, _)
TrtLoop(w, entries, i, host, seq_lens, beam_width) ==
    IF w.raised \/ i > Len(entries) THEN w
    ELSE LET u == TrtUpdateOne(w.reqs[entries[i].id], host, seq_lens,
                               beam_width)
         IN  TrtLoop([reqs |-> [w.reqs EXCEPT ![entries[i].id] = u.req],
                      raised |-> u.raised],
                     entries, i + 1, host, seq_lens, beam_width)

TRTLLMDecoder_update_requests(reqs, batch, host, seq_lens, beam_width) ==
    TrtLoop([reqs |-> reqs, raised |-> FALSE], BatchEntries(batch), 1, host,
            seq_lens, beam_width)

NoDevice ==
    [sequence_lengths |-> [sl \in Slots |-> << 0 >>],
     all_new_tokens |-> << [sl \in Slots |-> 0] >>,
     finished_sum |-> [sl \in Slots |-> 0],
     finish_reasons |-> [sl \in Slots |-> NOT_FINISHED]]

NoRead ==
    [valid |-> FALSE, step |-> 0, has_event |-> FALSE, waited |-> FALSE,
     host_ready |-> FALSE, event_after_copies |-> FALSE,
     seq_lens_read |-> << >>, seq_lens_produced |-> << >>,
     host_read |-> << >>, prev |-> << >>, batch |-> NoBatch]

\* The asynchronous part is idle in the behaviours of the commit walk alone.
NoAsync ==
    /\ variant = "TorchDecoder"
    /\ decoder = [mixed_decoder |-> FALSE, batch_size |-> 0,
                  beam_width |-> 0,
                  sequence_lengths_host |-> [sl \in Slots |-> << 0 >>]]
    /\ device = NoDevice
    /\ stream = << >>
    /\ events_done = {}
    /\ inflight = << >>
    /\ step = 0
    /\ error = FALSE
    /\ last_read = NoRead

\* ----------------------------------------------------------------- actions

Init ==
    /\ max_seq_len = 4
    /\ requests \in [ReqIds -> { NewRequest(p) : p \in Profiles }]
    /\ observed = FALSE
    /\ calls = 0
    /\ obs = NoObs
    /\ probe = NoProbe
    /\ NoAsync

\* Chunked requests are scheduled in the recorded behaviours only.
ChunkedChoices == IF observed THEN 0 .. MaxChunked ELSE {0}

\* One step of the executor with TorchDecoder on the batch of plan: the
\* model and decode_async fill the token buffer, update_requests commits.
StepWith(plan, chunked) ==
    LET batch == BatchOf(plan, chunked)
        prev == update_request_states(requests, batch)
    IN  \E new_tokens_list \in [1 .. NumRows(batch) -> Vocab] :
          LET w == TorchDecoder_update_requests(prev, batch, new_tokens_list)
          IN  /\ requests' = w.reqs
              /\ obs' = IF observed
                        THEN [valid |-> TRUE, prev |-> prev, batch |-> batch,
                              new_tokens_list |-> new_tokens_list,
                              token_idx |-> w.token_idx,
                              request_idx |-> w.request_idx,
                              visits |-> w.visits]
                        ELSE obs
              /\ calls' = IF observed THEN calls + 1 ELSE calls
              /\ UNCHANGED << max_seq_len, observed, probe, async_vars >>

TorchStep ==
    /\ observed => calls < MaxCalls
    /\ \E plan \in [ReqIds -> AllEntries], chunked \in ChunkedChoices :
        /\ \A r \in ReqIds : MayPlan(requests[r], plan[r])
        /\ \E r \in ReqIds : plan[r].kind # "none"
        /\ StepWith(plan, chunked)

Next == TorchStep

Spec == Init /\ [][Next]_vars

\* The same steps with every commit call recorded, for the first MaxCalls
\* calls.
InitStep ==
    /\ max_seq_len = 4
    /\ requests \in [ReqIds -> { NewRequest(p) : p \in Profiles }]
    /\ observed = TRUE
    /\ calls = 0
    /\ obs = NoObs
    /\ probe = NoProbe
    /\ NoAsync

SpecStep == InitStep /\ [][Next]_vars

\* The steps of an executor that schedules every request that is not
\* complete in every step: a request in prefill as a context request, one
\* that generates as a generation request (request 1 with or without
\* drafts, the others without), as long as a request is left to schedule.
LivePlan(r) ==
    CASE requests[r].state = CONTEXT_INIT -> ContextEntries
      [] requests[r].state = GENERATION_IN_PROGRESS ->
             IF r = 1 THEN {PlainEntry} \cup ExtendEntries ELSE {PlainEntry}
      [] OTHER -> {NotScheduled}

LiveStep ==
    \E plan \in [ReqIds -> AllEntries] :
        /\ \A r \in ReqIds : plan[r] \in LivePlan(r)
        /\ \E r \in ReqIds : plan[r].kind # "none"
        /\ StepWith(plan, 0)

NextLive == LiveStep

\* LiveStep can change the state exactly when a request is left to schedule:
\* LiveEnabled is ENABLED <<LiveStep>>_vars.
LiveEnabled == \E r \in ReqIds : requests[r].state # GENERATION_COMPLETE

\* The executor loop does not stop while a request is left: weak fairness of
\* LiveStep, WF_vars(LiveStep), with the enabling condition written out.
LiveFairness == []<>(~LiveEnabled) \/ []<><<LiveStep>>_vars

SpecLive == Init /\ [][NextLive]_vars /\ LiveFairness

\* Behaviours of one request (request 1) alone in its batch, with longer
\* drafts and a decoder whose max_seq_len leaves room for them.
DraftProfiles ==
    { [prompt |-> << 1 >>, py_max_new_tokens |-> 6, py_end_id |-> e,
       py_stop_words_list |-> << >>, py_return_generation_logits |-> TRUE] :
        e \in {-1, 0} }

LongExtendEntries ==
    { [kind |-> "generation", context_remaining |-> 0,
       has_draft |-> TRUE, py_draft_tokens |-> d] :
        d \in SeqsOf(Vocab, 0, MaxLongDraft) }

InitDraft ==
    /\ max_seq_len = 8
    /\ \E p \in DraftProfiles, q \in Profiles :
          requests = [r \in ReqIds |->
                         IF r = 1 THEN NewRequest(p) ELSE NewRequest(q)]
    /\ observed = TRUE
    /\ calls = 0
    /\ obs = NoObs
    /\ probe = NoProbe
    /\ NoAsync

DraftStep ==
    /\ calls < MaxCalls
    /\ \E e \in ContextEntries \cup LongExtendEntries \cup {PlainEntry} :
        /\ MayPlan(requests[1], e)
        /\ StepWith([r \in ReqIds |-> IF r = 1 THEN e ELSE NotScheduled], 0)

NextDraft == DraftStep

SpecDraft == InitDraft /\ [][NextDraft]_vars

\* The stop-criteria evaluator on its own: one request, the tokens of its
\* beam 0 committed one at a time (add_new_token, then
\* _handle_stop_criteria), until a criterion fires.
StopProfiles ==
    { [prompt |-> p, py_max_new_tokens |-> n, py_end_id |-> e,
       py_stop_words_list |-> sw, py_return_generation_logits |-> FALSE] :
        p \in { << 1 >>, << 0, 1 >> },
        n \in 1 .. 3,
        e \in {-1, 0},
        sw \in { << >>,
                 << << 1, 0 >>, << 2 >> >>,
                 << << 1, 1, 1, 0 >>, << 1, 4 >> >> } }

InitStop ==
    /\ max_seq_len = 4
    /\ requests = [r \in ReqIds |-> NewRequest(CHOOSE p \in Profiles : TRUE)]
    /\ observed = FALSE
    /\ calls = 0
    /\ obs = NoObs
    /\ NoAsync
    /\ \E p \in StopProfiles :
          probe = [NoProbe EXCEPT
                      !.request = [NewRequest(p) EXCEPT
                                      !.state = GENERATION_IN_PROGRESS]]

StopEval ==
    /\ probe.request.state # GENERATION_COMPLETE
    /\ \E new_token \in Vocab :
          LET r1 == add_new_token(probe.request, new_token)
              h == handle_stop_criteria(r1, new_token, Len(r1.tokens))
          IN  probe' = [evaluated |-> TRUE, request |-> h.req, before |-> r1,
                        new_token |-> new_token, stop |-> h.stop,
                        sets |-> h.sets]
    /\ UNCHANGED << max_seq_len, torch_vars, async_vars >>

NextStop == StopEval

SpecStop == InitStop /\ [][NextStop]_vars

\* The stop-phrase test on its own: one request, tokens appended to its
\* beam 0 one at a time, _meet_stop_token_criteria evaluated after each.
\* The lists have phrases of one token and more, phrases of no token (a
\* boundary that repeats, a first boundary of 0) and boundaries padded with
\* -1.
PhraseProfiles ==
    { [prompt |-> p, py_max_new_tokens |-> 3, py_end_id |-> -1,
       py_stop_words_list |-> sw, py_return_generation_logits |-> FALSE] :
        p \in { << 0 >>, << 1 >>, << 0, 1 >>, << 1, 1 >> },
        sw \in { << >>,
                 << << >>, << >> >>,
                 << << 1, 0 >>, << 2 >> >>,
                 << << 1, 1, 1, 0 >>, << 1, 4 >> >>,
                 << << 1, 0 >>, << 2, 2 >> >>,
                 << << 0 >>, << 0, 1 >> >>,
                 << << 1, 0 >>, << 2, -1 >> >> } }

InitPhrase ==
    /\ max_seq_len = 4
    /\ requests = [r \in ReqIds |-> NewRequest(CHOOSE p \in Profiles : TRUE)]
    /\ observed = FALSE
    /\ calls = 0
    /\ obs = NoObs
    /\ NoAsync
    /\ \E p \in PhraseProfiles :
          probe = [evaluated |-> FALSE,
                   request |-> [NewRequest(p) EXCEPT
                                   !.state = GENERATION_IN_PROGRESS],
                   met |-> FALSE]

PhraseEval ==
    /\ Len(probe.request.tokens) < max_seq_len
    /\ \E new_token \in Vocab :
          LET r1 == add_new_token(probe.request, new_token)
          IN  probe' = [evaluated |-> TRUE, request |-> r1,
                        met |-> meet_stop_token_criteria(r1)]
    /\ UNCHANGED << max_seq_len, torch_vars, async_vars >>

NextPhrase == PhraseEval

SpecPhrase == InitPhrase /\ [][NextPhrase]_vars

\* The single-request sampler on its own: one request's sampling_config and
\* one score row, given to decode_single_request once.
Thresholds == { << 0, 1 >>, << 1, 2 >>, << 9, 10 >>, << 1, 1 >> }

SamplingConfigs ==
    { [top_p |-> tp, top_k |-> tk] :
        tp \in {None, List(<< >>)} \cup { List(<< t >>) : t \in Thresholds },
        tk \in {None, List(<< >>)}
                  \cup { List(<< k >>) : k \in 0 .. VocabSize + 1 } }

NoSample ==
    [raised |-> FALSE, strategy |-> "", candidates |-> {},
     next_tokens |-> 0, log_probs |-> << 0, 1 >>]

InitSample ==
    /\ max_seq_len = 4
    /\ requests = [r \in ReqIds |-> NewRequest(CHOOSE p \in Profiles : TRUE)]
    /\ observed = FALSE
    /\ calls = 0
    /\ obs = NoObs
    /\ NoAsync
    /\ \E sampling_config \in SamplingConfigs,
          logits \in [Tokens -> 0 .. MaxScore] :
          probe = [evaluated |-> FALSE, sampling_config |-> sampling_config,
                   logits |-> logits, result |-> NoSample]

SampleEval ==
    /\ ~probe.evaluated
    /\ \E result \in decode_single_request(probe.sampling_config,
                                           probe.logits) :
          probe' = [probe EXCEPT !.evaluated = TRUE, !.result = result]
    /\ UNCHANGED << max_seq_len, torch_vars, async_vars >>

NextSample == SampleEval

SpecSample == InitSample /\ [][NextSample]_vars

\* TorchDecoder in mixed per-request mode, one step at a time: the model
\* gives one score row per scheduled request, _mixed_decode samples,
\* the executor moves the context requests on, update_requests commits.  A
\* generation request that completed after it was scheduled is still in the
\* batch.  obs keeps the last step.
InitMixed ==
    /\ max_seq_len = 4
    /\ requests \in [ReqIds -> { NewRequest(p) : p \in Profiles }]
    /\ observed = TRUE
    /\ calls = 0
    /\ obs = NoObs
    /\ probe = NoProbe
    /\ variant = "TorchDecoder"
    /\ decoder = [mixed_decoder |-> TRUE, batch_size |-> 0, beam_width |-> 0,
                  sequence_lengths_host |-> [sl \in Slots |-> << 0 >>]]
    /\ device = NoDevice
    /\ stream = << >>
    /\ events_done = {}
    /\ inflight = << >>
    /\ step = 0
    /\ error = FALSE
    /\ last_read = NoRead

MixedStep ==
    /\ ~error
    /\ calls < MaxCalls
    /\ \E plan \in [ReqIds -> {NotScheduled, PlainEntry} \cup ContextEntries] :
        /\ \A r \in ReqIds : MayPlan(requests[r], plan[r])
        /\ \E r \in ReqIds : plan[r].kind # "none"
        /\ LET batch == BatchOf(plan, 0)
           IN  \E sampled \in [1 .. NumRows(batch) -> Vocab] :
                 LET d == TorchDecoder_decode_async(requests, decoder, batch,
                                                    calls, sampled)
                     prev == update_request_states(d.requests, batch)
                     new_tokens_list == d.state.new_tensors_device
                     w == TorchDecoder_update_requests(prev, batch,
                                                       new_tokens_list)
                 IN  /\ requests' = IF d.raised THEN d.requests ELSE w.reqs
                     /\ error' = IF d.raised THEN TRUE ELSE w.raised
                     /\ obs' = IF d.raised
                               THEN [NoObs EXCEPT !.prev = requests,
                                                  !.batch = batch]
                               ELSE [valid |-> TRUE, prev |-> prev,
                                     batch |-> batch,
                                     new_tokens_list |-> new_tokens_list,
                                     token_idx |-> w.token_idx,
                                     request_idx |-> w.request_idx,
                                     visits |-> w.visits]
    /\ calls' = calls + 1
    /\ UNCHANGED << max_seq_len, observed, probe, variant, decoder, device,
                    stream, events_done, inflight, step, last_read >>

NextMixed == MixedStep

SpecMixed == InitMixed /\ [][NextMixed]_vars

\* ------------------------------------------------------ overlapped execution

\* The executor issues decode_async for a step, moves the step's context
\* requests on, and commits the oldest uncommitted step with
\* update_requests; up to MaxInflight steps are issued and not yet
\* committed.  The accelerator executes the operations of its stream in
\* order, at its own pace.
Variants ==
    {"EarlyStopDecoder", "TorchDecoder", "TorchStarAttentionDecoder",
     "TRTLLMDecoder"}

TorchVariants == {"TorchDecoder", "TorchStarAttentionDecoder"}

AsyncProfiles == { p \in Profiles : p.py_stop_words_list = << >> }

InitAsync ==
    /\ max_seq_len = 4
    /\ observed = FALSE
    /\ calls = 0
    /\ obs = NoObs
    /\ probe = NoProbe
    /\ variant \in Variants
    /\ \E m \in BOOLEAN, max_beam_width \in 1 .. MaxBeamWidth :
          /\ m => variant \in TorchVariants
          /\ max_beam_width > 1 => variant = "TRTLLMDecoder"
          /\ decoder = [mixed_decoder |-> m, batch_size |-> 0,
                        beam_width |-> 0,
                        sequence_lengths_host |->
                            [sl \in Slots |->
                                [b \in 1 .. max_beam_width |-> 0]]]
          /\ device = [NoDevice EXCEPT !.sequence_lengths =
                           [sl \in Slots |->
                               [b \in 1 .. max_beam_width |-> 0]]]
          /\ \E f \in [ReqIds -> AsyncProfiles],
                beam_width \in 1 .. max_beam_width :
                requests = [r \in ReqIds |->
                               [NewRequest(f[r]) EXCEPT
                                   !.seq_slot = r - 1,
                                   !.beam_width = beam_width]]
    /\ stream = << >>
    /\ events_done = {}
    /\ inflight = << >>
    /\ step = 0
    /\ error = FALSE
    /\ last_read = NoRead

\* A request in prefill is scheduled as a context request, one that
\* generates as a generation request.
AsyncPlan(plan) ==
    /\ \A r \in ReqIds :
          \/ plan[r] = NotScheduled
          \/ requests[r].state = CONTEXT_INIT /\ plan[r] \in ContextEntries
          \/ requests[r].state = GENERATION_IN_PROGRESS /\ plan[r] = PlainEntry
    /\ \E r \in ReqIds : plan[r].kind # "none"

\* The model engine gives every scheduled request the row of its output.
ModelForward(reqs, batch) ==
    LET entries == BatchEntries(batch)
    IN  [r \in ReqIds |->
            IF \E i \in 1 .. Len(entries) : entries[i].id = r
            THEN [reqs[r] EXCEPT !.output_token_idx =
                     (CHOOSE i \in 1 .. Len(entries) : entries[i].id = r) - 1]
            ELSE reqs[r]]

\* What the native decoder may produce for the scheduled slots.
Outcomes(batch) ==
    LET entries == BatchEntries(batch)
    IN  { o \in [Slots -> [token : Vocab, done : BOOLEAN]] :
            \A sl \in Slots :
                (\A i \in 1 .. Len(entries) : entries[i].id # sl + 1)
                    => o[sl] = [token |-> 0, done |-> FALSE] }

Issue(d) ==
    /\ requests' = d.requests
    /\ decoder' = d.decoder
    /\ error' = d.raised
    /\ IF d.raised
       THEN UNCHANGED << inflight, stream, step >>
       ELSE /\ inflight' = Append(inflight, d.state)
            /\ stream' = stream \o d.ops
            /\ step' = step + 1
    /\ UNCHANGED << max_seq_len, observed, calls, obs, probe, variant,
                    device, events_done, last_read >>

DecodeAsync ==
    /\ ~error
    /\ step < MaxSteps
    /\ Len(inflight) < MaxInflight
    /\ \A i \in 1 .. Len(inflight) : inflight[i].states_updated
    /\ \E plan \in [ReqIds -> {NotScheduled, PlainEntry} \cup ContextEntries] :
        /\ AsyncPlan(plan)
        /\ LET batch == BatchOf(plan, 0)
               reqs == ModelForward(requests, batch)
           IN  CASE variant = "EarlyStopDecoder" ->
                        Issue(EarlyStopDecoder_decode_async(
                                  reqs, decoder, batch, step))
                 [] variant \in TorchVariants ->
                        \E t \in [1 .. NumRows(batch) -> Vocab] :
                            Issue(TorchDecoder_decode_async(
                                      reqs, decoder, batch, step, t))
                 [] variant = "TRTLLMDecoder" ->
                        \E o \in Outcomes(batch) :
                            Issue(TRTLLMDecoder_decode_async(
                                      reqs, decoder, batch, step, o))

ExecutorUpdateStates ==
    /\ ~error
    /\ inflight # << >>
    /\ ~inflight[Len(inflight)].states_updated
    /\ requests' = update_request_states(
                       requests, inflight[Len(inflight)].scheduled_requests)
    /\ inflight' = [inflight EXCEPT ![Len(inflight)].states_updated = TRUE]
    /\ UNCHANGED << max_seq_len, observed, calls, obs, probe, variant,
                    decoder, device, stream, events_done, step, error,
                    last_read >>

\* The accelerator executes the next operation of its stream; a copy fills
\* the tensors of the state it was issued for, where that state is still
\* held.
AcceleratorRun ==
    /\ stream # << >>
    /\ stream' = Tail(stream)
    /\ LET op == Head(stream)
           CopySeqLens(ds) ==
               [ds EXCEPT !.seq_lens_produced = device.sequence_lengths]
           Copy(ds) ==
               IF variant = "TRTLLMDecoder"
               THEN [ds EXCEPT !.host =
                        [ready |-> TRUE,
                         new_tokens |-> device.all_new_tokens,
                         finished_sum |-> device.finished_sum,
                         finish_reasons |-> device.finish_reasons]]
               ELSE [ds EXCEPT !.host.ready = TRUE,
                               !.host.new_tokens = ds.new_tensors_device]
       IN  CASE op.kind = "forward" ->
                    /\ device' = NativeForward(device, requests, op.batch,
                                               op.outcome)
                    /\ UNCHANGED << decoder, inflight, events_done >>
             [] op.kind = "copy_seq_lens" ->
                    /\ decoder' = [decoder EXCEPT !.sequence_lengths_host =
                                      device.sequence_lengths]
                    /\ inflight' =
                           [i \in 1 .. Len(inflight) |->
                               IF inflight[i].step = op.step
                               THEN CopySeqLens(inflight[i])
                               ELSE inflight[i]]
                    /\ UNCHANGED << device, events_done >>
             [] op.kind = "copy" ->
                    /\ inflight' =
                           [i \in 1 .. Len(inflight) |->
                               IF inflight[i].step = op.step
                               THEN Copy(inflight[i])
                               ELSE inflight[i]]
                    /\ UNCHANGED << decoder, device, events_done >>
             [] op.kind = "record" ->
                    /\ events_done' = events_done \cup {op.step}
                    /\ UNCHANGED << decoder, device, inflight >>
    /\ UNCHANGED << max_seq_len, torch_vars, probe, variant, step, error,
                    last_read >>

\* What the host finds in the tensors of a state: the copied values once
\* the copies have executed, anything before.
HostReads(ds) ==
    IF ds.host.ready \/ variant = "EarlyStopDecoder"
    THEN {ds.host}
    ELSE IF variant = "TRTLLMDecoder"
    THEN { [ready |-> FALSE,
            new_tokens |-> << [sl \in Slots |-> v] >>,
            finished_sum |-> [sl \in Slots |-> 0],
            finish_reasons |-> [sl \in Slots |-> NOT_FINISHED]] :
              v \in Vocab }
    ELSE { [ds.host EXCEPT !.new_tokens =
               [i \in 1 .. NumRows(ds.scheduled_requests) |-> v]] :
              v \in Vocab }

Commit(ds, host) ==
    CASE variant = "EarlyStopDecoder" ->
             EarlyStopDecoder_update_requests(requests, ds.scheduled_requests)
      [] variant = "TorchDecoder" ->
             LET w == TorchDecoder_update_requests(
                          requests, ds.scheduled_requests, host.new_tokens)
             IN  [reqs |-> w.reqs, raised |-> w.raised]
      [] variant = "TorchStarAttentionDecoder" ->
             TorchStarAttentionDecoder_update_requests(
                 requests, ds.scheduled_requests, host.new_tokens)
      [] variant = "TRTLLMDecoder" ->
             TRTLLMDecoder_update_requests(
                 requests, ds.scheduled_requests, host,
                 decoder.sequence_lengths_host, decoder.beam_width)

UpdateRequests ==
    /\ ~error
    /\ inflight # << >>
    /\ LET ds == Head(inflight)
       IN  /\ ds.states_updated
           /\ synchronize(ds)
           /\ \E host \in HostReads(ds) :
                 LET res == Commit(ds, host)
                 IN  /\ requests' = res.reqs
                     /\ error' = res.raised
                     /\ last_read' =
                            [valid |-> TRUE, step |-> ds.step,
                             has_event |-> ds.has_event,
                             waited |-> ds.step \in events_done,
                             host_ready |-> ds.host.ready,
                             event_after_copies |-> ds.event_after_copies,
                             seq_lens_read |->
                                 IF ds.shares_store
                                 THEN decoder.sequence_lengths_host
                                 ELSE << >>,
                             seq_lens_produced |-> ds.seq_lens_produced,
                             host_read |-> host,
                             prev |-> requests,
                             batch |-> ds.scheduled_requests]
    /\ inflight' = Tail(inflight)
    /\ UNCHANGED << max_seq_len, observed, calls, obs, probe, variant,
                    decoder, device, stream, events_done, step >>

NextAsync ==
    \/ DecodeAsync
    \/ ExecutorUpdateStates
    \/ AcceleratorRun
    \/ UpdateRequests

SpecAsync == InitAsync /\ [][NextAsync]_vars

\* ---------------------------------------------------- one step at a time

\* The executor without overlap: decode_async of a step is issued when the
\* step before is committed.  The scheduler may hand over any batch of the
\* requests that are not complete, the batch of no request included; obs
\* keeps the batch handed over last and the requests as they were.
SyncPlan(plan) ==
    \A r \in ReqIds :
        \/ plan[r] = NotScheduled
        \/ requests[r].state = CONTEXT_INIT /\ plan[r] \in ContextEntries
        \/ requests[r].state = GENERATION_IN_PROGRESS /\ plan[r] = PlainEntry

SyncIssue(d, batch) ==
    /\ requests' = d.requests
    /\ decoder' = d.decoder
    /\ error' = d.raised
    /\ obs' = [NoObs EXCEPT !.prev = requests, !.batch = batch]
    /\ IF d.raised
       THEN UNCHANGED << inflight, stream, step >>
       ELSE /\ inflight' = Append(inflight, d.state)
            /\ stream' = stream \o d.ops
            /\ step' = step + 1
    /\ UNCHANGED << max_seq_len, observed, calls, probe, variant,
                    device, events_done, last_read >>

SyncDecodeAsync ==
    /\ ~error
    /\ step < MaxSteps
    /\ inflight = << >>
    /\ \E plan \in [ReqIds -> {NotScheduled, PlainEntry} \cup ContextEntries] :
        /\ SyncPlan(plan)
        /\ LET batch == BatchOf(plan, 0)
               reqs == ModelForward(requests, batch)
           IN  CASE variant = "EarlyStopDecoder" ->
                        SyncIssue(EarlyStopDecoder_decode_async(
                                      reqs, decoder, batch, step), batch)
                 [] variant \in TorchVariants ->
                        \E t \in [1 .. NumRows(batch) -> Vocab] :
                            SyncIssue(TorchDecoder_decode_async(
                                          reqs, decoder, batch, step, t),
                                      batch)
                 [] variant = "TRTLLMDecoder" ->
                        \E o \in Outcomes(batch) :
                            SyncIssue(TRTLLMDecoder_decode_async(
                                          reqs, decoder, batch, step, o),
                                      batch)

NextSync ==
    \/ SyncDecodeAsync
    \/ ExecutorUpdateStates
    \/ AcceleratorRun
    \/ UpdateRequests

SpecSync == InitAsync /\ [][NextSync]_vars

\* ================================================================== claims

GenCount(request) == Len(request.tokens) - request.py_orig_prompt_len

IsPrefix(a, b) == Len(a) <= Len(b) /\ SubSeq(b, 1, Len(a)) = a

\* The entries of the recorded batch, and the extend entries among them.
ObsContext == { obs.batch.context_requests[i] :
                    i \in 1 .. Len(obs.batch.context_requests) }
ObsGeneration == { obs.batch.generation_requests[i] :
                       i \in 1 .. Len(obs.batch.generation_requests) }
ObsExtend == { e \in ObsGeneration : e.has_draft }
ObsPlain == { e \in ObsGeneration : ~e.has_draft }
ObsVisits == { obs.visits[i] : i \in 1 .. Len(obs.visits) }

\* C1: over any sequence of update_requests calls a request's beam-0 token
\* sequence never shrinks, and no token is appended to a request whose state
\* is GENERATION_COMPLETE: neither by a later call nor later in the call
\* that completed it (the draft-acceptance loop of an extend row).
C1_NoAppendAfterComplete ==
    [][\A r \in ReqIds :
          /\ IsPrefix(requests[r].tokens, requests'[r].tokens)
          /\ requests[r].state = GENERATION_COMPLETE
                => requests'[r].tokens = requests[r].tokens
          /\ ~requests'[r].appended_when_complete]_vars

\* The length of the longest prefix of the drafts d that equals the row t
\* position by position.
LongestMatch(d, t) ==
    CHOOSE k \in 0 .. Len(d) :
        /\ \A i \in 1 .. k : d[i] = t[i]
        /\ k = Len(d) \/ d[k + 1] # t[k + 1]

\* C2: an extend request with drafts d whose row span holds t, committed
\* with no stop criterion firing, gets num_accepted = the length of the
\* longest prefix with d[i] = t[i], and exactly t[0 .. num_accepted] are
\* appended in order: no buffer token after the first mismatch is committed.
C2_DraftAcceptance ==
    obs.valid =>
        \A e \in ObsExtend :
            LET d == e.py_draft_tokens
                t == obs.new_tokens_list
                n == LongestMatch(d, t)
            IN  (/\ obs.prev[e.id].state # GENERATION_COMPLETE
                 /\ requests[e.id].state # GENERATION_COMPLETE)
                => /\ requests[e.id].py_num_accepted_draft_tokens = n
                   /\ requests[e.id].tokens =
                          obs.prev[e.id].tokens \o SubSeq(t, 1, n + 1)

\* C2 witness: three drafts, the third rejected: two accepted, three tokens
\* committed, the fourth buffer token left out, no stop criterion fired.
C2_Witness ==
    /\ obs.valid
    /\ \E e \in ObsExtend :
        /\ Len(e.py_draft_tokens) = 3
        /\ LongestMatch(e.py_draft_tokens, obs.new_tokens_list) = 2
        /\ obs.prev[e.id].state = GENERATION_IN_PROGRESS
        /\ requests[e.id].state = GENERATION_IN_PROGRESS
        /\ requests[e.id].py_num_accepted_draft_tokens = 2
        /\ Len(requests[e.id].tokens) = Len(obs.prev[e.id].tokens) + 3

\* C4 as stated: the finish reason is LENGTH exactly when the generated
\* token count has reached max_new_tokens, and not before.
C4_LengthExactlyAtMaxNewTokens ==
    \A r \in ReqIds :
        requests[r].finish_reason = LENGTH
            <=> GenCount(requests[r]) >= requests[r].py_max_new_tokens

\* C4 amended: LENGTH is never set before the generated count has reached
\* max_new_tokens or the total count has reached max_seq_len; and a request
\* whose commits have brought it there is complete, with reason LENGTH
\* unless its last token is the end id (then END_ID).
C4_LengthAtMaxNewTokensOrMaxSeqLen ==
    \A r \in ReqIds :
        LET request == requests[r]
            reached == \/ GenCount(request) >= request.py_max_new_tokens
                       \/ Len(request.tokens) >= max_seq_len
        IN  /\ request.finish_reason = LENGTH => reached
            /\ (reached /\ GenCount(request) >= 1)
                => /\ request.state = GENERATION_COMPLETE
                   /\ request.finish_reason =
                        IF request.tokens[Len(request.tokens)]
                               = request.py_end_id
                        THEN END_ID ELSE LENGTH

\* C4 witness: a request finished with LENGTH by its own max_new_tokens,
\* below max_seq_len.
C4_Witness ==
    \E r \in ReqIds :
        /\ requests[r].finish_reason = LENGTH
        /\ GenCount(requests[r]) = requests[r].py_max_new_tokens
        /\ Len(requests[r].tokens) < max_seq_len

C9_CompletedRowsSkipped ==
    obs.valid =>
        \A e \in ObsContext \cup ObsPlain :
            obs.prev[e.id].state = GENERATION_COMPLETE
            => /\ requests[e.id].tokens = obs.prev[e.id].tokens
               /\ requests[e.id].py_decoding_iter
                      = obs.prev[e.id].py_decoding_iter
               /\ requests[e.id].finish_reason = obs.prev[e.id].finish_reason
               /\ requests[e.id].state = GENERATION_COMPLETE
               /\ \E v \in ObsVisits :
                      v.id = e.id /\ v.token_idx_after = v.token_idx + 1

\* C9 witness: a completed request on a context row and another on a plain
\* generation row of the same call, followed by a row that is committed.
C9_Witness ==
    /\ obs.valid
    /\ \E e \in ObsContext : obs.prev[e.id].state = GENERATION_COMPLETE
    /\ \E e \in ObsPlain : obs.prev[e.id].state = GENERATION_COMPLETE
    /\ obs.token_idx >= 2

\* The phrases of a stop-word list: the flat list cut at the prefix sums.
Phrases(sw) ==
    IF sw = << >> THEN {}
    ELSE { SubSeq(sw[1], (IF i = 1 THEN 0 ELSE sw[2][i - 1]) + 1, sw[2][i]) :
              i \in 1 .. Len(sw[2]) }

IsSuffix(a, b) == Len(a) <= Len(b) /\ SubSeq(b, Len(b) - Len(a) + 1, Len(b)) = a

\* What holds of the probe's last evaluation: the end id was committed, the
\* length limits are reached, a stop phrase ends the sequence.
ProbeEndId == probe.new_token = probe.before.py_end_id
ProbeLength ==
    \/ GenCount(probe.before) >= probe.before.py_max_new_tokens
    \/ Len(probe.before.tokens) >= max_seq_len
ProbePhrase ==
    \E ph \in Phrases(probe.before.py_stop_words_list) :
        IsSuffix(ph, probe.before.tokens)

\* C3: _handle_stop_criteria gives END_ID whenever the new token is the end
\* id, whatever else matches; LENGTH before STOP_WORDS; one reason per
\* evaluation; and on no match the request is left as it was.
C3_StopCriteriaPrecedence ==
    probe.evaluated =>
        LET want == IF ProbeEndId THEN END_ID
                    ELSE IF ProbeLength THEN LENGTH
                    ELSE IF ProbePhrase THEN STOP_WORDS
                    ELSE NOT_FINISHED
        IN  /\ probe.request.finish_reason = want
            /\ probe.stop <=> want # NOT_FINISHED
            /\ probe.sets = IF want = NOT_FINISHED THEN 0 ELSE 1
            /\ want # NOT_FINISHED
                  => probe.request.state = GENERATION_COMPLETE
            /\ want = NOT_FINISHED => probe.request = probe.before

\* C3 witness: the end id arrives when the length limit is reached and a
\* stop phrase matches as well; the reason is END_ID.
C3_Witness ==
    /\ probe.evaluated
    /\ ProbeEndId /\ ProbeLength /\ ProbePhrase
    /\ probe.request.finish_reason = END_ID

\* C3 witness of the second rule: length and stop phrase both match.
C3_WitnessLength ==
    /\ probe.evaluated
    /\ ~ProbeEndId /\ ProbeLength /\ ProbePhrase
    /\ probe.request.finish_reason = LENGTH


\* C6: with TRTLLMDecoder, the sequence lengths update_requests reads from
\* the Decode State of a step are the ones that step's decode_async
\* produced, also when decode_async of a later step was issued first.
C6_SeqLensOfTheStep ==
    (last_read.valid /\ variant = "TRTLLMDecoder")
        => last_read.seq_lens_read = last_read.seq_lens_produced

\* C7: update_requests of a variant that copies asynchronously reads the
\* host tensors of a Decode State only after that state's event has
\* completed, the event was recorded after the state's copies were issued,
\* and so the copies have executed at the read.
C7_ReadsAfterEvent ==
    (last_read.valid /\ last_read.has_event)
        => /\ last_read.waited
           /\ last_read.event_after_copies
           /\ last_read.host_ready

\* A commit of a step of an asynchronous variant while operations of a
\* later step are still pending on the accelerator.
C7_Witness ==
    /\ last_read.valid
    /\ last_read.has_event
    /\ last_read.waited
    /\ variant \in TorchVariants \cup {"TRTLLMDecoder"}
    /\ stream # << >>
    /\ inflight # << >>

\* The fields of a request the commit step owns.
Committed(request) ==
    << request.tokens, request.state, request.finish_reason,
       request.py_decoding_iter, request.py_num_accepted_draft_tokens,
       request.py_rewind_len >>

\* C8: a step that issues decode_async (of any variant) leaves the tokens,
\* state, finish reason and counters of every request unchanged; a step
\* that changes the tokens, finish reason or counters of a request is an
\* update_requests step, and the executor's state update, the only other
\* step that touches a request, changes the state alone.
C8_DecodeAsyncLeavesRequests ==
    [][/\ (step' # step \/ (error' # error /\ last_read' = last_read))
           => \A r \in ReqIds :
                  Committed(requests'[r]) = Committed(requests[r])
       /\ \A r \in ReqIds :
              Committed(requests'[r]) # Committed(requests[r])
                  => \/ last_read' # last_read
                     \/ /\ inflight' # inflight
                        /\ [requests'[r] EXCEPT !.state = requests[r].state]
                               = requests[r]]_vars

\* Steps of every variant were issued and one is committed.
C8_Witness ==
    /\ step = MaxSteps
    /\ last_read.valid
    /\ \E r \in ReqIds : Len(requests[r].tokens) > requests[r].py_orig_prompt_len

\* C10: EarlyStopDecoder.update_requests on a batch with generation
\* requests fails, and no request is modified by the call.
C10_EarlyStopFailsFast ==
    (/\ last_read.valid
     /\ variant = "EarlyStopDecoder"
     /\ last_read.batch.generation_requests # << >>)
        => error /\ requests = last_read.prev

\* The failing call had context requests it would have completed.
C10_Witness ==
    /\ last_read.valid
    /\ variant = "EarlyStopDecoder"
    /\ last_read.batch.generation_requests # << >>
    /\ \E i \in 1 .. Len(last_read.batch.context_requests) :
          requests[last_read.batch.context_requests[i].id].state
              # GENERATION_COMPLETE
    /\ error

\* C11: without overlap, decode_async followed by update_requests on a batch
\* with no generation request raises no error, whatever the decoder variant
\* and the number of context requests of the batch (none included): an
\* error is only ever raised on a batch that has generation requests.
C11_EmptyGenerationTolerated ==
    error => obs.batch.generation_requests # << >>

\* The entries of the batch committed last, and the larger of two numbers.
ReadEntries ==
    { BatchEntries(last_read.batch)[i] :
          i \in 1 .. Len(BatchEntries(last_read.batch)) }

Max(a, b) == IF a > b THEN a ELSE b

\* The tokens TRTLLMDecoder.update_requests is to append to request id on
\* beam 0: the first n generated positions of its slot, n the smaller of
\* num_draft_tokens + 1 and the sequence length reported for the slot and
\* the beam minus the tokens the request had, or none if that is not
\* positive.
TrtNewTokens(id) ==
    LET before == last_read.prev[id]
        seq_len == last_read.seq_lens_read[before.seq_slot][1]
        n == Max(0, Min(before.num_draft_tokens + 1,
                        seq_len - Len(before.tokens)))
    IN  [step_ \in 1 .. n |->
            last_read.host_read.new_tokens[step_][before.seq_slot]]

\* C12: TRTLLMDecoder.update_requests appends to every request of the batch
\* that is not in initial-context state exactly those tokens.
C12_TrtAppendedTokens ==
    (last_read.valid /\ variant = "TRTLLMDecoder")
        => \A e \in ReadEntries :
              last_read.prev[e.id].state # CONTEXT_INIT
                  => requests[e.id].tokens
                         = last_read.prev[e.id].tokens \o TrtNewTokens(e.id)

\* C13: TRTLLMDecoder.update_requests leaves a request in initial-context
\* state as it was, completes a request only if the finished count read
\* for its slot equals the beam width, and leaves a request in progress
\* whose finished count is below the beam width.
C13_TrtCompleteOnlyWhenAllBeamsFinished ==
    [][(last_read' # last_read /\ variant = "TRTLLMDecoder")
          => \A i \in 1 .. Len(BatchEntries(last_read'.batch)) :
                LET id == BatchEntries(last_read'.batch)[i].id
                    before == requests[id]
                    after == requests'[id]
                    finished ==
                        last_read'.host_read.finished_sum[before.seq_slot]
                IN  /\ before.state = CONTEXT_INIT => after = before
                    /\ (after.state = GENERATION_COMPLETE
                          /\ before.state # GENERATION_COMPLETE)
                         => finished = decoder.beam_width
                    /\ (before.state = GENERATION_IN_PROGRESS
                          /\ finished < decoder.beam_width)
                         => after.state = GENERATION_IN_PROGRESS]_vars

\* One call that completes a request, leaves another in progress with a
\* token appended, and passes over a request still in prefill.
C13_Witness ==
    /\ last_read.valid
    /\ variant = "TRTLLMDecoder"
    /\ ~error
    /\ \E e \in ReadEntries :
          /\ last_read.prev[e.id].state = GENERATION_IN_PROGRESS
          /\ requests[e.id].state = GENERATION_COMPLETE
    /\ \E e \in ReadEntries :
          \/ /\ last_read.prev[e.id].state = GENERATION_IN_PROGRESS
             /\ requests[e.id].state = GENERATION_IN_PROGRESS
             /\ Len(requests[e.id].tokens)
                    > Len(last_read.prev[e.id].tokens)
          \/ last_read.prev[e.id].state = CONTEXT_INIT

\* ------------------------------------------------------------------ sampling

Sampled == probe.evaluated /\ ~probe.result.raised

IsSet(optional) == ~optional.is_none /\ Len(optional.list) > 0

\* Mass(S, logits) is the numerator of the softmax mass of the tokens S.
Mass(S, logits) == SumOver([i \in Tokens |-> Exp(logits[i])], S)

\* The k-th largest score of a row, equal scores counted each.
KthLargest(logits, k) ==
    CHOOSE v \in 0 .. MaxScore :
        /\ Cardinality({ i \in Tokens : logits[i] > v }) < k
        /\ Cardinality({ i \in Tokens : logits[i] >= v }) >= k

\* C14: decode_single_request uses top-p when the request's top_p list is
\* not empty, otherwise top-k when its top_k list is not empty, otherwise the
\* greedy arg-max; a request with both lists set gets a result of the top-p
\* sampler.
C14_StrategyPrecedence ==
    probe.evaluated =>
        LET cfg == probe.sampling_config
        IN  /\ probe.result.strategy =
                  IF IsSet(cfg.top_p) THEN "top_p"
                  ELSE IF IsSet(cfg.top_k) THEN "top_k"
                  ELSE "greedy"
            /\ IsSet(cfg.top_p) =>
                  probe.result \in top_p_sampling_batch(probe.logits,
                                                        cfg.top_p.list[1])
            /\ (~IsSet(cfg.top_p) /\ ~IsSet(cfg.top_k)) =>
                  \A i \in Tokens : probe.logits[i]
                                      <= probe.logits[probe.result.next_tokens]

\* Both lists are set and the token returned is one top-k would have masked.
C14_Witness ==
    /\ Sampled
    /\ IsSet(probe.sampling_config.top_p)
    /\ IsSet(probe.sampling_config.top_k)
    /\ probe.sampling_config.top_k.list[1] \in 1 .. VocabSize
    /\ probe.logits[probe.result.next_tokens]
           < KthLargest(probe.logits, probe.sampling_config.top_k.list[1])

\* C15: a token top_k_sampling_batch returns has a score not below the k-th
\* largest score of the row, and the candidates are exactly the tokens whose
\* score is not below it.
C15_TopKCandidates ==
    (Sampled /\ probe.result.strategy = "top_k") =>
        LET kth == KthLargest(probe.logits, probe.sampling_config.top_k.list[1])
        IN  /\ probe.logits[probe.result.next_tokens] >= kth
            /\ probe.result.candidates =
                   { i \in Tokens : probe.logits[i] >= kth }

\* Scores tie at the boundary: more than k candidates, and not the whole row.
C15_Witness ==
    /\ Sampled
    /\ probe.result.strategy = "top_k"
    /\ Cardinality(probe.result.candidates) > probe.sampling_config.top_k.list[1]
    /\ probe.result.candidates # Tokens

\* LeadingRun(whole_row_allowed): the candidates of top-p are the first n
\* tokens of the row in some descending order of the scores, n >= 1, the
\* mass of the first n - 1 does not exceed p, and the mass of the n exceeds
\* p (or, where allowed, the n tokens are the whole row).
LeadingRun(whole_row_allowed) ==
    LET p == probe.sampling_config.top_p.list[1]
        total == Mass(Tokens, probe.logits)
    IN  \E sorted \in SortedIndices(probe.logits), n \in Tokens :
           LET kept == { sorted[i] : i \in 1 .. n }
           IN  /\ probe.result.candidates = kept
               /\ probe.result.next_tokens \in kept
               /\ Mass(kept \ {sorted[n]}, probe.logits) * p[2]
                      <= p[1] * total
               /\ \/ Mass(kept, probe.logits) * p[2] > p[1] * total
                  \/ whole_row_allowed /\ kept = Tokens

\* C16 as stated: the candidates of top_p_sampling_batch are a leading run of
\* the sorted row that holds the top token, has mass above p, and has mass
\* at most p without its last token.
C16_TopPMassExceeds ==
    (Sampled /\ probe.result.strategy = "top_p") => LeadingRun(FALSE)

\* C16: the candidates of top_p_sampling_batch are a leading run of the
\* sorted row that holds the top token and has mass at most p without its
\* last token; its mass is above p, unless it is the whole row (the mass of
\* which, 1, is not above a threshold of 1).
C16_TopPLeadingRun ==
    (Sampled /\ probe.result.strategy = "top_p") => LeadingRun(TRUE)

\* The boundary token is kept: more than one candidate, not the whole row.
C16_Witness ==
    /\ Sampled
    /\ probe.result.strategy = "top_p"
    /\ Cardinality(probe.result.candidates) > 1
    /\ probe.result.candidates # Tokens

\* The whole row is kept and its mass does not exceed the threshold.
C16_WitnessWholeRow ==
    /\ Sampled
    /\ probe.result.strategy = "top_p"
    /\ probe.result.candidates = Tokens
    /\ probe.sampling_config.top_p.list[1] = << 1, 1 >>

\* ---------------------------------------------------------------- mixed mode

\* The requests the last update_requests call had a token to commit to: in
\* the batch, not GENERATION_COMPLETE, and not in the middle of their prefill.
ObsDue ==
    { e \in ObsContext \cup ObsGeneration :
        /\ e.context_remaining = 0
        /\ obs.prev[e.id].state # GENERATION_COMPLETE }

\* C17: in mixed mode update_requests commits to every request that is due
\* a token the token _mixed_decode produced for that request: the call does
\* not raise, the request is visited, and the row read for it is the row
\* produced for it.
C17_MixedRowsAgree ==
    obs.valid =>
        /\ ~error
        /\ \A e \in ObsDue :
              \E v \in ObsVisits :
                 /\ v.id = e.id
                 /\ v.token_idx + 1
                        \in DOMAIN MixedRequests(obs.prev, obs.batch)
                 /\ MixedRequests(obs.prev, obs.batch)[v.token_idx + 1] = e.id
                 /\ requests[e.id].tokens[Len(obs.prev[e.id].tokens) + 1]
                        = obs.new_tokens_list[v.token_idx + 1]

\* With no completed generation request in the batch the rows agree.
C17_AgreeWithoutCompleted ==
    (obs.valid /\ \A e \in ObsGeneration :
                     obs.prev[e.id].state # GENERATION_COMPLETE)
        => /\ ~error
           /\ \A e \in ObsDue :
                 \E v \in ObsVisits :
                    /\ v.id = e.id
                    /\ MixedRequests(obs.prev, obs.batch)[v.token_idx + 1]
                           = e.id

\* ------------------------------------------------------------- row offsets

VisitOf(id) == CHOOSE v \in ObsVisits : v.id = id

\* PlainBefore(i): the plain generation requests before position i of the
\* generation collection.
PlainBefore(i) ==
    Cardinality({ k \in 1 .. i - 1 :
                    ~obs.batch.generation_requests[k].has_draft })

ExtendRows == SumRows(SelectSeq(obs.batch.generation_requests, IsExtend), 1)

\* C18: update_requests advances the row offset by 1 + len(draft_tokens) for
\* every extend request, completed or not and whatever it accepted; every
\* extend request is walked before every plain generation request; the j-th
\* plain generation request (j from 0) is walked at row (number of context
\* requests) + (sum of 1 + len(draft_tokens) over the extend requests) + j,
\* and the token committed to it is the token of that row.
C18_ExtendRowsThenPlainRows ==
    obs.valid =>
        /\ \A e \in ObsExtend :
              VisitOf(e.id).token_idx_after
                  = VisitOf(e.id).token_idx + 1 + Len(e.py_draft_tokens)
        /\ \A i, j \in 1 .. Len(obs.visits) :
              (/\ \E e \in ObsExtend : e.id = obs.visits[i].id
               /\ \E e \in ObsPlain : e.id = obs.visits[j].id) => i < j
        /\ \A i \in 1 .. Len(obs.batch.generation_requests) :
              LET e == obs.batch.generation_requests[i]
                  row == Len(obs.batch.context_requests) + ExtendRows
                             + PlainBefore(i)
              IN  ~e.has_draft =>
                    /\ VisitOf(e.id).token_idx = row
                    /\ obs.prev[e.id].state # GENERATION_COMPLETE =>
                          requests[e.id].tokens =
                              Append(obs.prev[e.id].tokens,
                                     obs.new_tokens_list[row + 1])

\* C18 witness: a plain generation request stands before an extend request
\* in the collection and is committed; the extend request has a draft that
\* it did not accept, or was complete already.
C18_Witness ==
    /\ obs.valid
    /\ \E i, j \in 1 .. Len(obs.batch.generation_requests) :
          LET e == obs.batch.generation_requests[i]
              x == obs.batch.generation_requests[j]
          IN  /\ i < j
              /\ ~e.has_draft
              /\ x.has_draft
              /\ Len(x.py_draft_tokens) > 0
              /\ Len(requests[e.id].tokens) > Len(obs.prev[e.id].tokens)
              /\ Len(requests[x.id].tokens)
                     < Len(obs.prev[x.id].tokens) + 1 + Len(x.py_draft_tokens)

\* C19: a context request with some of its prefill left is returned by
\* update_requests as it was, in every field, and the row offset advances by
\* one over it.
C19_MidPrefillUntouched ==
    obs.valid =>
        \A e \in ObsContext :
            e.context_remaining # 0 =>
                /\ requests[e.id] = obs.prev[e.id]
                /\ VisitOf(e.id).token_idx_after = VisitOf(e.id).token_idx + 1

\* C19 witness: a request in the middle of its prefill, not complete and with
\* logits asked for, is walked before a request that is committed the token
\* of the next row.
C19_Witness ==
    /\ obs.valid
    /\ \E e \in ObsContext :
          /\ e.context_remaining # 0
          /\ obs.prev[e.id].state = CONTEXT_INIT
          /\ obs.prev[e.id].py_return_generation_logits
          /\ \E f \in ObsContext \cup ObsGeneration :
                /\ VisitOf(f.id).token_idx = VisitOf(e.id).token_idx + 1
                /\ Len(requests[f.id].tokens) > Len(obs.prev[f.id].tokens)

\* ------------------------------------------------------------ stop phrases

\* C20 as stated: _meet_stop_token_criteria returns true exactly when some
\* phrase of the stop-word list, of whatever length, is no longer than the
\* token sequence and equal to its tail of that length.
C20_PhraseIsTail ==
    probe.evaluated =>
        (probe.met <=>
            \E ph \in Phrases(probe.request.py_stop_words_list) :
                IsSuffix(ph, probe.request.tokens))

\* C20: _meet_stop_token_criteria returns true exactly when some phrase of
\* at least one token is no longer than the token sequence and equal to its
\* tail of that length; a phrase of no token does not match the sequence,
\* which holds at least the token just committed.
C20_NonEmptyPhraseIsTail ==
    probe.evaluated =>
        /\ probe.request.tokens # << >>
        /\ probe.met <=>
              \E ph \in Phrases(probe.request.py_stop_words_list) :
                  ph # << >> /\ IsSuffix(ph, probe.request.tokens)

\* C20 witness: a phrase of one token matches.
C20_Witness ==
    /\ probe.evaluated
    /\ probe.met
    /\ \E ph \in Phrases(probe.request.py_stop_words_list) :
          Len(ph) = 1 /\ IsSuffix(ph, probe.request.tokens)

\* C20 witness: the list has a phrase of no token and nothing matches.
C20_WitnessEmptyPhrase ==
    /\ probe.evaluated
    /\ ~probe.met
    /\ << >> \in Phrases(probe.request.py_stop_words_list)

\* C20 witness: a phrase longer than the sequence is passed over.
C20_WitnessLongPhrase ==
    /\ probe.evaluated
    /\ ~probe.met
    /\ \E ph \in Phrases(probe.request.py_stop_words_list) :
          /\ Len(ph) > Len(probe.request.tokens)
          /\ SubSeq(ph, Len(ph) - Len(probe.request.tokens) + 1, Len(ph))
                 = probe.request.tokens

\* ------------------------------------------------------------ extend rows

\* The extend requests the last update_requests call committed.
ObsExtendCommitted ==
    { e \in ObsExtend : obs.prev[e.id].state # GENERATION_COMPLETE }

Accepted(e) == requests[e.id].py_num_accepted_draft_tokens

\* C21: for an extend request that update_requests commits, num_accepted is
\* between 0 and len(draft_tokens), the rewind length is the allocated draft
\* capacity less num_accepted, and the rows read for it, token_idx up to
\* token_idx + num_accepted, the rows of the tokens appended to it, are
\* rows of its own span, below the offset the walk leaves it with.
C21_ExtendReadsOwnRows ==
    obs.valid =>
        \A e \in ObsExtendCommitted :
            LET v == VisitOf(e.id)
            IN  /\ 0 <= Accepted(e)
                /\ Accepted(e) <= Len(e.py_draft_tokens)
                /\ requests[e.id].py_rewind_len =
                       obs.prev[e.id].py_draft_pages_allocated - Accepted(e)
                /\ requests[e.id].tokens =
                       obs.prev[e.id].tokens
                           \o SubSeq(obs.new_tokens_list, v.token_idx + 1,
                                     v.token_idx + 1 + Accepted(e))
                /\ \A row \in v.token_idx .. v.token_idx + Accepted(e) :
                       /\ row <= v.token_idx + Len(e.py_draft_tokens)
                       /\ row < v.token_idx_after

\* C21 witness: every draft of a request is accepted, so the last row of its
\* span is read, and the rows of another request follow.
C21_Witness ==
    /\ obs.valid
    /\ \E e \in ObsExtendCommitted :
          /\ Len(e.py_draft_tokens) >= 1
          /\ Accepted(e) = Len(e.py_draft_tokens)
          /\ \E v \in ObsVisits :
                v.token_idx = VisitOf(e.id).token_idx_after

\* C22: for an extend request that asked for generation logits and is
\* committed by update_requests, the logits rows captured in the call start
\* at the request's first row and are as many as the tokens committed to the
\* request in the call.
C22_LogitsOfCommittedTokens ==
    obs.valid =>
        \A e \in ObsExtendCommitted :
            obs.prev[e.id].py_return_generation_logits =>
                requests[e.id].logits_slice =
                    << VisitOf(e.id).token_idx,
                       Len(requests[e.id].tokens)
                           - Len(obs.prev[e.id].tokens) >>

\* The rows captured start at the request's first row and are as many as the
\* drafts accepted, one fewer than the tokens committed.
C22_LogitsOfAcceptedDrafts ==
    obs.valid =>
        \A e \in ObsExtendCommitted :
            obs.prev[e.id].py_return_generation_logits =>
                /\ requests[e.id].logits_slice =
                       << VisitOf(e.id).token_idx, Accepted(e) >>
                /\ Len(requests[e.id].tokens)
                       = Len(obs.prev[e.id].tokens) + Accepted(e) + 1

\* ----------------------------------------------------------- length limits

\* C23: a request whose prompt is shorter than max_seq_len and whose
\* max_new_tokens is at least 1 never holds more than max_new_tokens
\* generated tokens nor more than max_seq_len tokens, whatever rows
\* update_requests committed to it.
C23_LengthLimitsKept ==
    \A r \in ReqIds :
        (/\ requests[r].py_orig_prompt_len < max_seq_len
         /\ requests[r].py_max_new_tokens >= 1)
        => /\ GenCount(requests[r]) <= requests[r].py_max_new_tokens
           /\ Len(requests[r].tokens) <= max_seq_len

\* ------------------------------------------------------- state and reason

\* A request is GENERATION_COMPLETE exactly when it has a finish reason.
CompleteIffReason ==
    \A r \in ReqIds :
        requests[r].state = GENERATION_COMPLETE
            <=> requests[r].finish_reason \in {END_ID, LENGTH, STOP_WORDS}

\* C24: under update_requests of TorchDecoder a request is
\* GENERATION_COMPLETE exactly when it has a finish reason (so the two are
\* set in the same step), and no finish reason that was set is overwritten
\* with a different one.
C24_StateAndReasonTogether ==
    /\ CompleteIffReason
    /\ \A r \in ReqIds : ~requests[r].reason_replaced

\* -------------------------------------------------------------- termination

\* C25: a request that generates and is scheduled in every step reaches
\* GENERATION_COMPLETE; every commit to it appends at least one token (the
\* generated tokens are at least as many as the commits), and it is
\* committed to at most max_new_tokens times.
C25_ScheduledRequestCompletes ==
    /\ [](\A r \in ReqIds :
             /\ GenCount(requests[r]) >= requests[r].py_decoding_iter
             /\ requests[r].py_decoding_iter <= requests[r].py_max_new_tokens)
    /\ \A r \in ReqIds :
          (requests[r].state = GENERATION_IN_PROGRESS)
              ~> (requests[r].state = GENERATION_COMPLETE)

\* C25 witness: a request completes on the length limit, with its
\* max_new_tokens-th commit.
C25_Witness ==
    \E r \in ReqIds :
        /\ requests[r].state = GENERATION_COMPLETE
        /\ requests[r].finish_reason = LENGTH
        /\ requests[r].py_decoding_iter = requests[r].py_max_new_tokens
        /\ GenCount(requests[r]) = requests[r].py_max_new_tokens

====
